---- MODULE Spec2Model ----
(***************************************************************************)
(* Session lifecycle and query execution of the MSSQL tool server          *)
(* (src/index.js, lines 44-657).                                           *)
(*                                                                         *)
(* The server is one Node.js process: every function body runs without     *)
(* interruption up to its next `await` of a driver promise                 *)
(* (connectionPool.close(), connectionPool.connect(), request.query()).    *)
(* Each action below is one such uninterrupted segment: a tool call up to  *)
(* its first driver await, a timer callback, or the continuation that runs *)
(* when a driver promise settles, up to the next driver await or the       *)
(* return to the caller.                                                   *)
(*                                                                         *)
(* Time is counted in ticks of 60000 ms (the period of the idle check).    *)
(* The clock starts at 1 so that Date.now() is truthy, as in the program;  *)
(* 0 stands for null in connectionPool, lastActivityTime and the timer     *)
(* handles.                                                                *)
(***************************************************************************)
EXTENDS Integers, Sequences, FiniteSets, Bags, TLC

\* ---------------------------------------------------------------- bounds
\* Each specification explores the program within a record of limits:
\*   time      last clock tick
\*   connects  connectDatabase invocations, finished or in flight
\*   queries   statements handed to the driver by executeQuery
\*   tasks     driver promises pending at once
\*   items     statements of one batch
MaxTime == 7
MaxConnects == 2
MaxQueries == 2
MaxTasks == 2
MaxItems == 3

\* ------------------------------------------------------ program constants
IdleThreshold == 5      \* 300000 ms
CheckPeriod == 1        \*  60000 ms
HeartbeatPeriod == 2    \* 120000 ms

NoConfig == "none"
Configs == {"cfgA", "cfgB"}
Durations == {10, 20, 30}   \* elapsed milliseconds a statement may take

VARIABLES
  connectionPool,      \* 0 (null) or the index in pools of the held pool
  lastActivityTime,    \* 0 (null) or the tick of the last activity
  connectionConfig,    \* NoConfig (null) or the retained configuration
  autoDisconnectTimer, \* 0 (null), -1 (handle of a timeout that has run), or the tick the timeout is due
  heartbeatTimer,      \* 0 (null) or the tick the interval fires next
  connectionStats,     \* the counters; averageQueryTime is the pair <<dividend, divisor>>
  pools,               \* every sql.ConnectionPool created so far
  tasks,               \* bag of pending driver promises with the code waiting on them
  pending,             \* how many setTimeout timeouts and setInterval intervals are armed
  now,                 \* Date.now() in ticks
  last,                \* what the latest step returned to a tool caller
  lastCallerTime,      \* tick of the latest caller call or return
  idleDisconnected,    \* the session was last closed by the idle watchdog
  batch,               \* the batch_execute_sql call in progress, or the latest one's outcome
  lim                  \* the limits of the explored scenario (never changes)

vars == <<connectionPool, lastActivityTime, connectionConfig, autoDisconnectTimer,
          heartbeatTimer, connectionStats, pools, tasks, pending, now, last,
          lastCallerTime, idleDisconnected, batch, lim>>

\* ---------------------------------------------------------- session state
\* The module-level variables of index.js as one record, so that the
\* synchronous segments of the functions are operators from record to record.
Sess ==
  [connectionPool |-> connectionPool, lastActivityTime |-> lastActivityTime,
   connectionConfig |-> connectionConfig, autoDisconnectTimer |-> autoDisconnectTimer,
   heartbeatTimer |-> heartbeatTimer, connectionStats |-> connectionStats,
   pools |-> pools, pending |-> pending]

SetSess(s) ==
  /\ connectionPool' = s.connectionPool
  /\ lastActivityTime' = s.lastActivityTime
  /\ connectionConfig' = s.connectionConfig
  /\ autoDisconnectTimer' = s.autoDisconnectTimer
  /\ heartbeatTimer' = s.heartbeatTimer
  /\ connectionStats' = s.connectionStats
  /\ pools' = s.pools
  /\ pending' = s.pending

InitStats ==
  [totalConnections |-> 0, successfulConnections |-> 0, failedConnections |-> 0,
   totalQueries |-> 0, successfulQueries |-> 0, failedQueries |-> 0,
   totalQueryTime |-> 0, averageQueryTime |-> <<0, 1>>]

\* What a step returned to a tool caller: the tool, the outcome and, for a
\* disconnect, what the disconnect returned that was the step right before.
NoRet == [op |-> "none", val |-> "none", before |-> "none"]
Ret(op, val) ==
  [op |-> op, val |-> val,
   before |-> IF op = "disconnect" /\ last.op = op THEN last.val ELSE "none"]

\* ------------------------------------------------------ the driver's pool
\* new sql.ConnectionPool(cfg) followed by connect(): the pool is connecting.
NewPool(cfg) == [connected |-> FALSE, connecting |-> TRUE, closed |-> FALSE, cfg |-> cfg]

\* pool.close(): the flags drop as soon as close is called.
PoolClose(s, p) ==
  [s EXCEPT !.pools[p] = [@ EXCEPT !.connected = FALSE, !.connecting = FALSE, !.closed = TRUE]]

\* pool.connect() resolved; up says whether a pool closed meanwhile comes up.
PoolConnected(s, p, up) ==
  [s EXCEPT !.pools[p] = [@ EXCEPT !.connecting = FALSE,
                                   !.connected = IF s.pools[p].closed THEN up ELSE TRUE]]

\* pool.connect() rejected.
PoolFailed(s, p) == [s EXCEPT !.pools[p] = [@ EXCEPT !.connecting = FALSE]]

\* ------------------------------------------------------------ timers
\* clearTimeout(autoDisconnectTimer): it disarms the timeout the handle names,
\* if that one has not run yet.
clearTimeout(s) ==
  IF s.autoDisconnectTimer > 0 THEN [s EXCEPT !.pending.timeouts = @ - 1] ELSE s

\* The timeout the handle names runs: it is armed no longer.
timeoutRan(s) == [s EXCEPT !.autoDisconnectTimer = -1, !.pending.timeouts = @ - 1]

\* clearInterval(heartbeatTimer).
clearInterval(s) ==
  IF s.heartbeatTimer > 0 THEN [s EXCEPT !.pending.intervals = @ - 1] ELSE s

\* Mutant: a new timeout is armed without clearing the stored handle.
startAutoDisconnectTimerNoClear(s) ==
  [s EXCEPT !.autoDisconnectTimer = now + CheckPeriod, !.pending.timeouts = @ + 1]

\* startAutoDisconnectTimer lines 97-102 and 115: clear the stored handle,
\* arm a timeout one check period ahead.
startAutoDisconnectTimer(s) ==
  LET c == IF s.autoDisconnectTimer # 0 THEN clearTimeout(s) ELSE s IN
  [c EXCEPT !.autoDisconnectTimer = now + CheckPeriod, !.pending.timeouts = @ + 1]

\* disconnectDatabase lines 186-189.
clearAutoDisconnectTimer(s) ==
  IF s.autoDisconnectTimer # 0 THEN [clearTimeout(s) EXCEPT !.autoDisconnectTimer = 0] ELSE s

\* Mutant: the activity is recorded without restarting the idle check.
updateActivityTimeNoRestart(s) == [s EXCEPT !.lastActivityTime = now]

updateActivityTime(s) == startAutoDisconnectTimer([s EXCEPT !.lastActivityTime = now])

\* startHeartbeat lines 69-73 and 85.
startHeartbeat(s) ==
  LET c == IF s.heartbeatTimer # 0 THEN clearInterval(s) ELSE s IN
  [c EXCEPT !.heartbeatTimer = now + HeartbeatPeriod, !.pending.intervals = @ + 1]

\* stopHeartbeat lines 89-94.
stopHeartbeat(s) ==
  IF s.heartbeatTimer # 0 THEN [clearInterval(s) EXCEPT !.heartbeatTimer = 0] ELSE s

isConnectionActive(s) ==
  /\ s.connectionPool # 0
  /\ s.pools[s.connectionPool].connected
  /\ ~s.pools[s.connectionPool].connecting

\* ------------------------------------------------ connect and disconnect
\* Mutant: the pool handle is not set to null.
disconnectDatabaseKeepsPool(s) ==
  stopHeartbeat(clearAutoDisconnectTimer(
    [s EXCEPT !.connectionConfig = NoConfig, !.lastActivityTime = 0]))

\* Mutant: disconnecting starts the statistics afresh.
disconnectDatabaseResetsStats(s) ==
  stopHeartbeat(clearAutoDisconnectTimer(
    [s EXCEPT !.connectionPool = 0, !.connectionConfig = NoConfig,
              !.lastActivityTime = 0, !.connectionStats = InitStats]))

\* disconnectDatabase after `await connectionPool.close()` (lines 182-194).
disconnectDatabaseDone(s) ==
  stopHeartbeat(clearAutoDisconnectTimer(
    [s EXCEPT !.connectionPool = 0, !.connectionConfig = NoConfig,
              !.lastActivityTime = 0]))

\* connectDatabase lines 155-157: create the pool and call connect().
connectDatabaseOpen(s, cfg) ==
  [s EXCEPT !.pools = Append(@, NewPool(cfg)), !.connectionPool = Len(s.pools) + 1]

\* connectDatabase lines 159-165, after `await connectionPool.connect()`.
connectDatabaseOk(s, cfg) ==
  startHeartbeat(updateActivityTime(
    [s EXCEPT !.connectionConfig = cfg,
              !.connectionStats.totalConnections = @ + 1,
              !.connectionStats.successfulConnections = @ + 1]))

\* Mutant: the catch block tries once more with a new pool.
connectDatabaseFailRetries(s) ==
  [s EXCEPT !.connectionStats.totalConnections = @ + 1,
            !.connectionStats.failedConnections = @ + 1,
            !.pools = Append(@, NewPool(s.connectionConfig)),
            !.connectionPool = Len(s.pools) + 1]

\* connectDatabase lines 169-173, the catch block.
connectDatabaseFail(s) ==
  [s EXCEPT !.connectionStats.totalConnections = @ + 1,
            !.connectionStats.failedConnections = @ + 1]

\* ---------------------------------------------------------------- queries
\* executeQuery lines 248-255.
executeQueryOk(s, queryTime) ==
  LET st == [s.connectionStats EXCEPT !.totalQueries = @ + 1,
                                      !.successfulQueries = @ + 1,
                                      !.totalQueryTime = @ + queryTime]
  IN updateActivityTime(
       [s EXCEPT !.connectionStats =
          [st EXCEPT !.averageQueryTime = <<st.totalQueryTime, st.totalQueries>>]])

\* Mutant: the catch block forgets totalQueries.
executeQueryFailUncounted(s) == [s EXCEPT !.connectionStats.failedQueries = @ + 1]

\* Mutant: the catch block calls updateActivityTime.
executeQueryFailTouches(s) ==
  updateActivityTime([s EXCEPT !.connectionStats.totalQueries = @ + 1,
                               !.connectionStats.failedQueries = @ + 1])

\* Mutant: the catch block gives up the pool handle.
executeQueryFailDropsPool(s) ==
  [s EXCEPT !.connectionStats.totalQueries = @ + 1,
            !.connectionStats.failedQueries = @ + 1,
            !.connectionPool = 0]

\* Mutant: the catch block counts the statement as a success.
executeQueryFailCountsSuccess(s) ==
  [s EXCEPT !.connectionStats.totalQueries = @ + 1,
            !.connectionStats.successfulQueries = @ + 1]

\* executeQuery lines 264-270, the catch block.
executeQueryFail(s) ==
  [s EXCEPT !.connectionStats.totalQueries = @ + 1,
            !.connectionStats.failedQueries = @ + 1]

\* ------------------------------------------------- calls up to first await
NoTask == [kind |-> "none", pc |-> "none", pool |-> 0, cfg |-> NoConfig, idx |-> 0, live |-> FALSE]
Frame(s, pc, pool, cfg, live) == [s |-> s, pc |-> pc, pool |-> pool, cfg |-> cfg, live |-> live]
TaskOf(kind, idx, f) ==
  [kind |-> kind, pc |-> f.pc, pool |-> f.pool, cfg |-> f.cfg, idx |-> idx, live |-> f.live]

\* connectDatabase up to its first await (lines 126-157): with a pool held it
\* enters disconnectDatabase and waits for close(), else it opens a pool. The
\* frame notes whether the session was connected when the call was made.
connectDatabaseCall(s, cfg) ==
  IF s.connectionPool # 0
  THEN Frame(PoolClose(s, s.connectionPool), "close", s.connectionPool, cfg,
             isConnectionActive(s))
  ELSE Frame(connectDatabaseOpen(s, cfg), "open", Len(s.pools) + 1, cfg, FALSE)

\* executeQuery lines 230-246 once reconnectIfNeeded returned true: a null
\* connectionPool throws inside the try block, which counts a failed query.
issueQuery(s) ==
  IF s.connectionPool = 0
  THEN Frame(executeQueryFail(s), "queryError", 0, NoConfig, FALSE)
  ELSE Frame(s, "query", s.connectionPool, NoConfig, s.pools[s.connectionPool].connected)

\* Mutant: without a retained configuration the gate lets the call through.
reconnectIfNeededNoGate(s) ==
  IF ~isConnectionActive(s) /\ s.connectionConfig # NoConfig
  THEN connectDatabaseCall(s, s.connectionConfig)
  ELSE Frame(s, "active", 0, NoConfig, FALSE)

\* Mutant: a call turned away as not connected is counted as a failed query.
reconnectIfNeededCounts(s) ==
  IF ~isConnectionActive(s) /\ s.connectionConfig # NoConfig
  THEN connectDatabaseCall(s, s.connectionConfig)
  ELSE IF isConnectionActive(s)
       THEN Frame(s, "active", 0, NoConfig, FALSE)
       ELSE Frame(executeQueryFail(s), "notConnected", 0, NoConfig, FALSE)

\* reconnectIfNeeded (lines 209-221) as called by executeQuery (lines 224-228).
reconnectIfNeeded(s) ==
  IF ~isConnectionActive(s) /\ s.connectionConfig # NoConfig
  THEN connectDatabaseCall(s, s.connectionConfig)
  ELSE IF isConnectionActive(s)
       THEN Frame(s, "active", 0, NoConfig, FALSE)
       ELSE Frame(s, "notConnected", 0, NoConfig, FALSE)

executeQueryCall(s) ==
  LET g == reconnectIfNeeded(s) IN IF g.pc = "active" THEN issueQuery(s) ELSE g

\* ----------------------------------------------------------- bookkeeping
InFlight(kinds, pcs) ==
  LET S == {t \in BagToSet(tasks) : t.kind \in kinds /\ t.pc \in pcs}
      RECURSIVE Sum(_)
      Sum(T) == IF T = {} THEN 0
                ELSE LET t == CHOOSE x \in T : TRUE IN CopiesIn(t, tasks) + Sum(T \ {t})
  IN Sum(S)

ConnectingKinds == {"connect", "execute", "batch", "item"}
Pending == {"close", "open", "query"}

\* The limits of the scenario, required of the state every step ends in.
Bounded ==
  /\ BagCardinality(tasks) <= lim.tasks
  /\ connectionStats.totalConnections + InFlight(ConnectingKinds, {"close", "open"}) <= lim.connects
  /\ connectionStats.totalQueries + InFlight({"execute", "item"}, {"query"}) <= lim.queries

Put(t) == tasks' = tasks (+) SetToBag({t})
Swap(t, u) == tasks' = (tasks (-) SetToBag({t})) (+) SetToBag({u})
Drop(t) == tasks' = tasks (-) SetToBag({t})

Caller(r) == /\ last' = r
             /\ lastCallerTime' = now

\* A step of a timer: no caller is involved.
Quiet == /\ last' = NoRet
         /\ UNCHANGED lastCallerTime

\* A caller's call went on to its next await without returning.
Working == /\ last' = NoRet
           /\ lastCallerTime' = now

\* ------------------------------------------------------------ tool calls
\* connect_database (lines 292-294).
ConnectTool(C) ==
  \E cfg \in C :
    LET f == connectDatabaseCall(Sess, cfg) IN
    /\ SetSess(f.s)
    /\ Put(TaskOf("connect", 0, f))
    /\ Working
    /\ idleDisconnected' = FALSE
    /\ UNCHANGED <<now, batch, lim>>
    /\ Bounded'

\* disconnectDatabase up to its await (lines 178-181), or its return of
\* false (line 196) when no pool is held. The frame notes whether the
\* session was connected when the call was made, and the return of true
\* carries the note as `active`.
disconnectDatabaseCall(s) ==
  IF s.connectionPool # 0
  THEN Frame(PoolClose(s, s.connectionPool), "close", s.connectionPool, NoConfig,
             isConnectionActive(s))
  ELSE Frame(s, "false", 0, NoConfig, FALSE)

\* disconnect_database (lines 388-390).
DisconnectTool ==
  LET f == disconnectDatabaseCall(Sess) IN
  /\ SetSess(f.s)
  /\ IF f.pc = "close"
     THEN Put(TaskOf("disconnect", 0, f)) /\ Working
     ELSE UNCHANGED tasks /\ Caller(Ret("disconnect", f.pc))
  /\ idleDisconnected' = FALSE
  /\ UNCHANGED <<now, batch, lim>>
  /\ Bounded'

\* execute_sql (lines 328-330) with executeQuery up to its first await.
ExecuteTool ==
  LET f == executeQueryCall(Sess) IN
  /\ SetSess(f.s)
  /\ IF f.pc \in Pending
     THEN Put(TaskOf("execute", 0, f)) /\ Working
     ELSE UNCHANGED tasks /\ Caller(Ret("execute", f.pc))
  /\ UNCHANGED <<now, idleDisconnected, batch, lim>>
  /\ Bounded'

\* ---------------------------------------------------------- continuations
\* `await connectionPool.close()` resolved: the rest of disconnectDatabase,
\* then the caller's code up to its next await.
CloseDone ==
  \E t \in BagToSet(tasks) :
    /\ t.pc = "close" /\ t.kind # "shutdown"
    /\ LET s1 == disconnectDatabaseDone(Sess) IN
       CASE t.kind = "disconnect" ->
              /\ SetSess(s1) /\ Drop(t)
              /\ Caller(Ret("disconnect", "true") @@ [active |-> t.live])
              /\ UNCHANGED idleDisconnected
         [] t.kind = "watchdog" ->
              /\ SetSess(s1) /\ Drop(t) /\ Quiet
              /\ idleDisconnected' = TRUE
         [] OTHER ->
              LET s2 == connectDatabaseOpen(s1, t.cfg) IN
              /\ SetSess(s2)
              /\ Swap(t, [t EXCEPT !.pc = "open", !.pool = s2.connectionPool])
              /\ Working
              /\ UNCHANGED idleDisconnected
    /\ UNCHANGED <<now, batch, lim>>
    /\ Bounded'

\* `await connectionPool.connect()` resolved: connectDatabase lines 159-168,
\* then the caller's code up to its next await.
OpenOk ==
  \E t \in BagToSet(tasks), up \in BOOLEAN :
    /\ t.pc = "open"
    /\ t.kind \in {"connect", "execute"}
    /\ (pools[t.pool].closed \/ up)
    /\ LET s1 == connectDatabaseOk(PoolConnected(Sess, t.pool, up), t.cfg) IN
       CASE t.kind = "connect" ->
              /\ SetSess(s1) /\ Drop(t) /\ Caller(Ret("connect", "ok"))
         [] OTHER ->
              LET f == issueQuery(s1) IN
              /\ SetSess(f.s)
              /\ IF f.pc = "query"
                 THEN Swap(t, TaskOf(t.kind, t.idx, f)) /\ Working
                 ELSE Drop(t) /\ Caller(Ret("execute", f.pc))
    /\ idleDisconnected' = FALSE
    /\ UNCHANGED <<now, batch, lim>>
    /\ Bounded'

\* `await connectionPool.connect()` rejected: connectDatabase lines 169-173;
\* reconnectIfNeeded turns the error into false and executeQuery throws.
OpenFail ==
  \E t \in BagToSet(tasks) :
    /\ t.pc = "open"
    /\ t.kind \in {"connect", "execute"}
    /\ SetSess(connectDatabaseFail(PoolFailed(Sess, t.pool)))
    /\ Drop(t)
    /\ Caller(Ret(t.kind, "connectFailed"))
    /\ idleDisconnected' = FALSE
    /\ UNCHANGED <<now, batch, lim>>

\* request.query() of executeQuery resolved (lines 248-263).
QueryOk(D) ==
  \E t \in BagToSet(tasks), queryTime \in D :
    /\ t.pc = "query" /\ t.kind = "execute" /\ t.live
    /\ SetSess(executeQueryOk(Sess, queryTime))
    /\ Drop(t)
    /\ Caller(Ret("execute", "ok"))
    /\ UNCHANGED <<now, idleDisconnected, batch, lim>>

\* request.query() of executeQuery rejected (lines 264-271).
QueryFail ==
  \E t \in BagToSet(tasks) :
    /\ t.pc = "query" /\ t.kind = "execute"
    /\ SetSess(executeQueryFail(Sess))
    /\ Drop(t)
    /\ Caller(Ret("execute", "queryError"))
    /\ UNCHANGED <<now, idleDisconnected, batch, lim>>

\* ------------------------------------------------------ batch_execute_sql
NoBatch == [phase |-> "idle", ids |-> <<>>, stopOnError |-> FALSE, parallel |-> FALSE,
            promises |-> <<>>, results |-> <<>>, ran |-> <<>>]
ItemIds == {"", "Q"}          \* the optional id of an item: absent, or supplied
Thrown == "ReferenceError"

Label(i) == "SQL_" \o ToString(i)

\* The result object of the parallel branch (lines 456-472).
parallelItem(ids, i, success) ==
  [index |-> i, id |-> IF ids[i] # "" THEN ids[i] ELSE Label(i), success |-> success]

\* The result object of the serial branch (lines 485-501): its default id
\* reads `index`, a name that no scope of the branch declares.
serialItem(ids, i, success) ==
  [index |-> i, id |-> IF ids[i] # "" THEN ids[i] ELSE Thrown, success |-> success]

\* Mutant: the results are collected in the order in which the promises settle.
settleInCompletionOrder(b, i, success) ==
  LET p == [b.promises EXCEPT ![i] = <<parallelItem(b.ids, i, success)>>]
      r == Append(b.results, parallelItem(b.ids, i, success))
  IN [b EXCEPT !.promises = p, !.results = r,
               !.phase = IF \A k \in 1..Len(p) : p[k] # <<>> THEN "done" ELSE @]

\* Mutant: with stopOnError a failing promise ends the parallel batch at once.
settleParallelStopsOnError(b, i, success) ==
  LET p == [b.promises EXCEPT ![i] = <<parallelItem(b.ids, i, success)>>] IN
  IF ~success /\ b.stopOnError
  THEN [b EXCEPT !.promises = p, !.results = p[i], !.phase = "done"]
  ELSE IF \A k \in 1..Len(p) : p[k] # <<>>
       THEN [b EXCEPT !.promises = p, !.results = [k \in 1..Len(p) |-> p[k][1]],
                      !.phase = "done"]
       ELSE [b EXCEPT !.promises = p]

\* One promise of the parallel branch settles; Promise.all (lines 476-477)
\* hands over the values in the order of the promises once all have settled.
settleParallel(b, i, success) ==
  LET p == [b.promises EXCEPT ![i] = <<parallelItem(b.ids, i, success)>>] IN
  IF \A k \in 1..Len(p) : p[k] # <<>>
  THEN [b EXCEPT !.promises = p, !.results = [k \in 1..Len(p) |-> p[k][1]], !.phase = "done"]
  ELSE [b EXCEPT !.promises = p]

Outcome(s, b, ts) == [s |-> s, b |-> b, ts |-> ts]

\* Observation: item i's executeQuery has returned (success) or thrown.
Ran(b, i, success) == [b EXCEPT !.ran = Append(@, [index |-> i, success |-> success])]

\* The parallel branch (lines 453-474): every item's executeQuery runs up to
\* its first await, one after the other, within the same step.
RECURSIVE dispatch(_, _, _)
dispatch(s, b, i) ==
  IF i > Len(b.ids) THEN Outcome(s, b, <<>>)
  ELSE LET f == executeQueryCall(s)
           b1 == IF f.pc \in Pending THEN b
                 ELSE settleParallel(Ran(b, i, FALSE), i, FALSE)
           rest == dispatch(f.s, b1, i + 1)
       IN Outcome(rest.s, rest.b,
                  IF f.pc \in Pending THEN <<TaskOf("item", i, f)>> \o rest.ts ELSE rest.ts)

\* The serial branch (lines 480-507): serialLoop is the loop from item i up to
\* the next await, serialSettle the code after item i's executeQuery returned.
RECURSIVE serialLoop(_, _, _)
RECURSIVE serialSettle(_, _, _, _)
serialLoop(s, b, i) ==
  IF i > Len(b.ids) THEN Outcome(s, [b EXCEPT !.phase = "done"], <<>>)
  ELSE LET f == executeQueryCall(s) IN
       IF f.pc \in Pending THEN Outcome(f.s, b, <<TaskOf("item", i, f)>>)
       ELSE serialSettle(f.s, Ran(b, i, FALSE), i, FALSE)

serialSettle(s, b, i, success) ==
  LET r == serialItem(b.ids, i, success) IN
  IF r.id = Thrown THEN Outcome(s, [b EXCEPT !.phase = "failed"], <<>>)
  ELSE LET b1 == [b EXCEPT !.results = Append(@, r)] IN
       IF ~success /\ b.stopOnError
       THEN Outcome(s, [b1 EXCEPT !.phase = "done"], <<>>)
       ELSE serialLoop(s, b1, i + 1)

\* Lines 447-508 once reconnectIfNeeded returned true.
runBatch(s, b) ==
  IF b.parallel
  THEN dispatch(s, [b EXCEPT !.phase = "run",
                             !.promises = [k \in 1..Len(b.ids) |-> <<>>]], 1)
  ELSE serialLoop(s, [b EXCEPT !.phase = "run"], 1)

\* An item's executeQuery returned or threw.
itemSettled(s, b, i, success) ==
  IF b.parallel THEN Outcome(s, settleParallel(Ran(b, i, success), i, success), <<>>)
  ELSE serialSettle(s, Ran(b, i, success), i, success)

RECURSIVE PutAll(_, _)
PutAll(bag, ts) == IF ts = <<>> THEN bag ELSE PutAll(bag (+) SetToBag({Head(ts)}), Tail(ts))

Over(b) == b.phase \in {"idle", "done", "failed"}

Apply(o, bag) ==
  /\ SetSess(o.s)
  /\ batch' = o.b
  /\ tasks' = PutAll(bag, o.ts)
  /\ IF Over(o.b) THEN Caller(Ret("batch", o.b.phase)) ELSE Working

\* batch_execute_sql up to its first await (lines 440-447).
BatchTool(Ids) ==
  \E n \in 1..lim.items, stopOnError \in BOOLEAN, parallel \in BOOLEAN :
  \E ids \in [1..n -> Ids] :
    LET b == [NoBatch EXCEPT !.ids = ids, !.stopOnError = stopOnError, !.parallel = parallel]
        g == reconnectIfNeeded(Sess)
    IN /\ batch.phase = "idle"
       /\ CASE g.pc = "active" -> Apply(runBatch(g.s, b), tasks)
            [] g.pc = "notConnected" -> Apply(Outcome(g.s, [b EXCEPT !.phase = "failed"], <<>>), tasks)
            [] OTHER -> Apply(Outcome(g.s, [b EXCEPT !.phase = "gate"], <<TaskOf("batch", 0, g)>>), tasks)
       /\ UNCHANGED <<now, idleDisconnected, lim>>
       /\ Bounded'

\* The batch's own reconnect succeeded (connectDatabase lines 159-168, then
\* lines 447-508).
BatchOpenOk ==
  \E t \in BagToSet(tasks), up \in BOOLEAN :
    /\ t.pc = "open" /\ t.kind = "batch"
    /\ (pools[t.pool].closed \/ up)
    /\ Apply(runBatch(connectDatabaseOk(PoolConnected(Sess, t.pool, up), t.cfg), batch),
             tasks (-) SetToBag({t}))
    /\ idleDisconnected' = FALSE
    /\ UNCHANGED <<now, lim>>
    /\ Bounded'

\* The batch's own reconnect failed: line 444 throws to the outer catch.
BatchOpenFail ==
  \E t \in BagToSet(tasks) :
    /\ t.pc = "open" /\ t.kind = "batch"
    /\ Apply(Outcome(connectDatabaseFail(PoolFailed(Sess, t.pool)),
                     [batch EXCEPT !.phase = "failed"], <<>>),
             tasks (-) SetToBag({t}))
    /\ idleDisconnected' = FALSE
    /\ UNCHANGED <<now, lim>>

\* An item's reconnect succeeded: its executeQuery goes on to the statement.
ItemOpenOk ==
  \E t \in BagToSet(tasks), up \in BOOLEAN :
    /\ t.pc = "open" /\ t.kind = "item"
    /\ (pools[t.pool].closed \/ up)
    /\ LET f == issueQuery(connectDatabaseOk(PoolConnected(Sess, t.pool, up), t.cfg)) IN
       Apply(IF f.pc = "query" THEN Outcome(f.s, batch, <<TaskOf("item", t.idx, f)>>)
             ELSE itemSettled(f.s, batch, t.idx, FALSE),
             tasks (-) SetToBag({t}))
    /\ idleDisconnected' = FALSE
    /\ UNCHANGED <<now, lim>>
    /\ Bounded'

\* An item's reconnect failed: its executeQuery throws at line 227.
ItemOpenFail ==
  \E t \in BagToSet(tasks) :
    /\ t.pc = "open" /\ t.kind = "item"
    /\ Apply(itemSettled(connectDatabaseFail(PoolFailed(Sess, t.pool)), batch, t.idx, FALSE),
             tasks (-) SetToBag({t}))
    /\ idleDisconnected' = FALSE
    /\ UNCHANGED <<now, lim>>
    /\ Bounded'

\* An item's statement resolved.
ItemQueryOk(D) ==
  \E t \in BagToSet(tasks), queryTime \in D :
    /\ t.pc = "query" /\ t.kind = "item" /\ t.live
    /\ Apply(itemSettled(executeQueryOk(Sess, queryTime), batch, t.idx, TRUE),
             tasks (-) SetToBag({t}))
    /\ UNCHANGED <<now, idleDisconnected, lim>>
    /\ Bounded'

\* An item's statement rejected.
ItemQueryFail ==
  \E t \in BagToSet(tasks) :
    /\ t.pc = "query" /\ t.kind = "item"
    /\ Apply(itemSettled(executeQueryFail(Sess), batch, t.idx, FALSE),
             tasks (-) SetToBag({t}))
    /\ UNCHANGED <<now, idleDisconnected, lim>>
    /\ Bounded'

\* ---------------------------------------------------------------- timers
\* Mutant: the callback closes the session without comparing the elapsed
\* time with the threshold.
autoDisconnectCallbackEager(s) ==
  IF s.connectionPool # 0 /\ s.lastActivityTime # 0
  THEN disconnectDatabaseCall(timeoutRan(s))
  ELSE Frame(timeoutRan(s), "none", 0, NoConfig, FALSE)

\* Mutant: the callback arms the next check even when no pool is held.
autoDisconnectCallbackRearms(s) ==
  IF s.connectionPool # 0 /\ s.lastActivityTime # 0
  THEN IF now - s.lastActivityTime >= IdleThreshold
       THEN disconnectDatabaseCall(timeoutRan(s))
       ELSE Frame(startAutoDisconnectTimer(timeoutRan(s)), "none", 0, NoConfig, FALSE)
  ELSE Frame(startAutoDisconnectTimer(timeoutRan(s)), "none", 0, NoConfig, FALSE)

\* The setTimeout callback of startAutoDisconnectTimer (lines 102-115); the
\* handle keeps naming the timeout that has run unless a new one is started.
autoDisconnectCallback(s) ==
  IF s.connectionPool # 0 /\ s.lastActivityTime # 0
  THEN IF now - s.lastActivityTime >= IdleThreshold
       THEN disconnectDatabaseCall(timeoutRan(s))
       ELSE Frame(startAutoDisconnectTimer(timeoutRan(s)), "none", 0, NoConfig, FALSE)
  ELSE Frame(timeoutRan(s), "none", 0, NoConfig, FALSE)

WatchdogFire ==
  /\ autoDisconnectTimer > 0 /\ now >= autoDisconnectTimer
  /\ LET f == autoDisconnectCallback(Sess) IN
     /\ SetSess(f.s)
     /\ IF f.pc = "close" THEN Put(TaskOf("watchdog", 0, f)) ELSE UNCHANGED tasks
  /\ Quiet
  /\ UNCHANGED <<now, idleDisconnected, batch, lim>>
  /\ Bounded'

\* The setInterval callback of startHeartbeat up to its await (lines 73-77).
heartbeatCallback(s) ==
  IF isConnectionActive(s)
  THEN Frame(s, "query", s.connectionPool, NoConfig, TRUE)
  ELSE Frame(s, "none", 0, NoConfig, FALSE)

HeartbeatFire ==
  /\ heartbeatTimer > 0 /\ now >= heartbeatTimer
  /\ LET f == heartbeatCallback(Sess) IN
     /\ SetSess([f.s EXCEPT !.heartbeatTimer = heartbeatTimer + HeartbeatPeriod])
     /\ IF f.pc = "query" THEN Put(TaskOf("heartbeat", 0, f)) ELSE UNCHANGED tasks
  /\ Quiet
  /\ UNCHANGED <<now, idleDisconnected, batch, lim>>
  /\ Bounded'

\* The heartbeat's probe resolved (line 78).
\* Mutant: a successful probe does not count as activity.
heartbeatOkNoTouch(s) == s

heartbeatOk(s) == updateActivityTime(s)

HeartbeatOk ==
  \E t \in BagToSet(tasks) :
    /\ t.pc = "query" /\ t.kind = "heartbeat" /\ t.live
    /\ SetSess(heartbeatOk(Sess))
    /\ Drop(t)
    /\ Quiet
    /\ UNCHANGED <<now, idleDisconnected, batch, lim>>

\* Mutant: a failed probe gives the session up.
heartbeatFailGivesUp(s) == disconnectDatabaseDone(s)

\* The heartbeat's probe rejected: the catch block is empty (lines 80-83).
heartbeatFail(s) == s

HeartbeatFail ==
  \E t \in BagToSet(tasks) :
    /\ t.pc = "query" /\ t.kind = "heartbeat"
    /\ SetSess(heartbeatFail(Sess))
    /\ Drop(t)
    /\ Quiet
    /\ UNCHANGED <<now, idleDisconnected, batch, lim>>

\* Time passes once every timer that is due has run.
Tick ==
  /\ now < lim.time
  /\ ~(autoDisconnectTimer > 0 /\ now >= autoDisconnectTimer)
  /\ ~(heartbeatTimer > 0 /\ now >= heartbeatTimer)
  /\ now' = now + 1
  /\ UNCHANGED <<connectionPool, lastActivityTime, connectionConfig, autoDisconnectTimer,
                 heartbeatTimer, connectionStats, pools, tasks, pending, last,
                 lastCallerTime, idleDisconnected, batch, lim>>

\* ------------------------------------------------------------- shutdown
\* process.exit(0) has been called: nothing runs any more.
Exited == last.op = "exit"
Exit == /\ last' = [op |-> "exit", val |-> "0", before |-> "none"]
        /\ UNCHANGED lastCallerTime

\* The SIGINT / SIGTERM handler up to its await (lines 1158-1162), or to its
\* process.exit(0) when no pool is held (line 1164).
shutdownHandler(s) ==
  LET s0 == stopHeartbeat(s) IN
  IF s0.connectionPool # 0 THEN disconnectDatabaseCall(s0)
  ELSE Frame(s0, "exit", 0, NoConfig, FALSE)

Signal ==
  /\ ~Exited
  /\ LET f == shutdownHandler(Sess) IN
     /\ SetSess(f.s)
     /\ IF f.pc = "close" THEN Put(TaskOf("shutdown", 0, f)) /\ Quiet
        ELSE UNCHANGED tasks /\ Exit
  /\ UNCHANGED <<now, idleDisconnected, batch, lim>>
  /\ Bounded'

\* The handler's `await disconnectDatabase()` returned: the rest of
\* disconnectDatabase (lines 182-194), then process.exit(0) (line 1164).
ShutdownCloseDone ==
  \E t \in BagToSet(tasks) :
    /\ ~Exited
    /\ t.pc = "close" /\ t.kind = "shutdown"
    /\ SetSess(disconnectDatabaseDone(Sess))
    /\ Drop(t)
    /\ Exit
    /\ UNCHANGED <<now, idleDisconnected, batch, lim>>

\* -------------------------------------------------- get_connection_status
TickMs == 60000             \* milliseconds in one tick of the clock
CountdownSeconds == 300     \* the countdown starts from 300 seconds
Offsets == {0, 999, 1000, 59999}   \* milliseconds into the current tick at which status is called

\* The fields of a connect_database configuration (lines 133-137): the two
\* configurations differ in the password only.
ConfigFields(cfg) ==
  [server |-> "db1", port |-> 1433, database |-> "app", user |-> "sa",
   password |-> IF cfg = "cfgA" THEN "pwA" ELSE "pwB"]

Floor(a, b) == a \div b
Max(a, b) == IF a >= b THEN a ELSE b

\* Math.round of the quotient held in averageQueryTime (line 628).
RoundAverage(avg) == Floor(2 * avg[1] + avg[2], 2 * avg[2])

\* Mutant: the countdown is not clamped.
countdownUnclamped(timeSinceLastActivity) ==
  LET remainingTime == CountdownSeconds - Floor(timeSinceLastActivity, 1000)
  IN [remainingMinutes |-> Floor(remainingTime, 60), remainingSeconds |-> remainingTime % 60]

\* Lines 612-614: the countdown shown as minutes and seconds.
countdown(timeSinceLastActivity) ==
  LET remainingTime == Max(0, CountdownSeconds - Floor(timeSinceLastActivity, 1000))
  IN [remainingMinutes |-> Floor(remainingTime, 60), remainingSeconds |-> remainingTime % 60]

\* Mutant: the connection information shows the whole configuration.
connectionInfoUnmasked(cfg) == ConfigFields(cfg)

\* Lines 604-606: the fields of the configuration that status shows.
connectionInfo(cfg) ==
  LET c == ConfigFields(cfg)
  IN [server |-> c.server, port |-> c.port, database |-> c.database, user |-> c.user]

\* The handler of get_connection_status (lines 594-657) called nowMs
\* milliseconds after the clock's origin. Reading a field of a null
\* connectionConfig (line 604) throws.
statusOutput(s, nowMs) ==
  LET isConnected == s.connectionPool # 0 /\ s.pools[s.connectionPool].connected
      timeSinceLastActivity == nowMs - s.lastActivityTime * TickMs
      st == s.connectionStats
      stats == [totalConnections |-> st.totalConnections,
                successfulConnections |-> st.successfulConnections,
                failedConnections |-> st.failedConnections,
                totalQueries |-> st.totalQueries,
                successfulQueries |-> st.successfulQueries,
                failedQueries |-> st.failedQueries,
                averageQueryTime |-> RoundAverage(st.averageQueryTime)]
  IN IF isConnected /\ s.connectionConfig = NoConfig
     THEN [kind |-> "TypeError"]
     ELSE IF ~isConnected
     THEN [kind |-> "notConnected", stats |-> stats]
     ELSE IF s.lastActivityTime = 0
     THEN [kind |-> "connected", info |-> connectionInfo(s.connectionConfig), stats |-> stats]
     ELSE [kind |-> "countdown", info |-> connectionInfo(s.connectionConfig),
           minutesSinceActivity |-> Floor(timeSinceLastActivity, 60000),
           secondsSinceActivity |-> Floor(timeSinceLastActivity % 60000, 1000),
           countdown |-> countdown(timeSinceLastActivity),
           stats |-> stats]

\* What get_connection_status returned, with the time of the call.
StatusRet(out, nowMs) ==
  [op |-> "status", val |-> out.kind, before |-> "none", out |-> out, nowMs |-> nowMs]

\* get_connection_status: it reads the session and changes nothing.
StatusTool ==
  \E off \in Offsets :
    /\ last' = StatusRet(statusOutput(Sess, now * TickMs + off), now * TickMs + off)
    /\ UNCHANGED <<connectionPool, lastActivityTime, connectionConfig, autoDisconnectTimer,
                   heartbeatTimer, connectionStats, pools, tasks, pending, now,
                   lastCallerTime, idleDisconnected, batch, lim>>

\* ------------------------------------------------------- specifications
Start ==
  /\ connectionPool = 0
  /\ lastActivityTime = 0
  /\ connectionConfig = NoConfig
  /\ autoDisconnectTimer = 0
  /\ heartbeatTimer = 0
  /\ connectionStats = InitStats
  /\ pools = <<>>
  /\ tasks = EmptyBag
  /\ pending = [timeouts |-> 0, intervals |-> 0]
  /\ now = 1
  /\ last = NoRet
  /\ lastCallerTime = 1
  /\ idleDisconnected = FALSE
  /\ batch = NoBatch

\* The session with its timers: one configuration, one statement duration.
Init ==
  /\ Start
  /\ lim = [time |-> MaxTime, connects |-> MaxConnects, queries |-> MaxQueries,
            tasks |-> MaxTasks, items |-> MaxItems]

Next ==
  \/ ConnectTool({"cfgA"})
  \/ DisconnectTool
  \/ ExecuteTool
  \/ CloseDone
  \/ OpenOk
  \/ OpenFail
  \/ QueryOk({10})
  \/ QueryFail
  \/ WatchdogFire
  \/ HeartbeatFire
  \/ HeartbeatOk
  \/ HeartbeatFail
  \/ Tick

Spec == Init /\ [][Next]_vars

\* Batches on a session that callers also connect and disconnect, without timers.
BatchTasks == 3
BatchQueries == 3
InitBatch ==
  /\ Start
  /\ lim = [time |-> 1, connects |-> MaxConnects, queries |-> BatchQueries,
            tasks |-> BatchTasks, items |-> MaxItems]

NextBatch ==
  \/ ConnectTool({"cfgA"})
  \/ DisconnectTool
  \/ BatchTool(ItemIds)
  \/ CloseDone
  \/ OpenOk
  \/ OpenFail
  \/ BatchOpenOk
  \/ BatchOpenFail
  \/ ItemOpenOk
  \/ ItemOpenFail
  \/ ItemQueryOk({10})
  \/ ItemQueryFail

SpecBatch == InitBatch /\ [][NextBatch]_vars

\* Callers racing each other on the session, without timers: three pending
\* promises, three connectDatabase invocations, two configurations.
RaceTasks == 3
RaceConnects == 3
RaceQueries == 1
InitRace ==
  /\ Start
  /\ lim = [time |-> 1, connects |-> RaceConnects, queries |-> RaceQueries,
            tasks |-> RaceTasks, items |-> 1]

NextRace ==
  \/ ConnectTool(Configs)
  \/ DisconnectTool
  \/ ExecuteTool
  \/ CloseDone
  \/ OpenOk
  \/ OpenFail
  \/ QueryOk({10})
  \/ QueryFail

SpecRace == InitRace /\ [][NextRace]_vars

\* The query counters under statements of different durations.
StatsQueries == 4
InitStatsSpec ==
  /\ Start
  /\ lim = [time |-> 1, connects |-> MaxConnects, queries |-> StatsQueries,
            tasks |-> MaxTasks, items |-> 1]

NextStats ==
  \/ ConnectTool({"cfgA"})
  \/ DisconnectTool
  \/ ExecuteTool
  \/ CloseDone
  \/ OpenOk
  \/ OpenFail
  \/ QueryOk(Durations)
  \/ QueryFail

SpecStats == InitStatsSpec /\ [][NextStats]_vars

\* Every operation together: tools, batches (of items that carry an id) and
\* both timers.
AllTime == 3
AllItems == 2
InitAll ==
  /\ Start
  /\ lim = [time |-> AllTime, connects |-> MaxConnects, queries |-> MaxQueries,
            tasks |-> MaxTasks, items |-> AllItems]

NextAll ==
  \/ ConnectTool({"cfgA"})
  \/ DisconnectTool
  \/ ExecuteTool
  \/ BatchTool({"Q"})
  \/ CloseDone
  \/ OpenOk
  \/ OpenFail
  \/ QueryOk({10})
  \/ QueryFail
  \/ BatchOpenOk
  \/ BatchOpenFail
  \/ ItemOpenOk
  \/ ItemOpenFail
  \/ ItemQueryOk({10})
  \/ ItemQueryFail
  \/ WatchdogFire
  \/ HeartbeatFire
  \/ HeartbeatOk
  \/ HeartbeatFail
  \/ Tick

SpecAll == InitAll /\ [][NextAll]_vars

\* Signals arriving while callers connect and disconnect, without timers.
ShutdownTasks == 3
InitShutdown ==
  /\ Start
  /\ lim = [time |-> 1, connects |-> MaxConnects, queries |-> 1,
            tasks |-> ShutdownTasks, items |-> 1]

NextShutdown ==
  \/ ~Exited /\ ConnectTool({"cfgA"})
  \/ ~Exited /\ DisconnectTool
  \/ ~Exited /\ CloseDone
  \/ ~Exited /\ OpenOk
  \/ ~Exited /\ OpenFail
  \/ Signal
  \/ ShutdownCloseDone

SpecShutdown == InitShutdown /\ [][NextShutdown]_vars

\* The status tool on a session that callers connect and disconnect, with
\* both timers and both configurations.
StatusTime == 6
InitStatus ==
  /\ Start
  /\ lim = [time |-> StatusTime, connects |-> MaxConnects, queries |-> 1,
            tasks |-> MaxTasks, items |-> 1]

NextStatus ==
  \/ ConnectTool(Configs)
  \/ DisconnectTool
  \/ StatusTool
  \/ CloseDone
  \/ OpenOk
  \/ OpenFail
  \/ WatchdogFire
  \/ HeartbeatFire
  \/ HeartbeatOk
  \/ HeartbeatFail
  \/ Tick

SpecStatus == InitStatus /\ [][NextStatus]_vars

\* ================================================================ claims
SessionVars == <<connectionPool, lastActivityTime, connectionConfig, autoDisconnectTimer,
                 heartbeatTimer, connectionStats, pools, tasks>>

\* C1 (as claimed): queries that find the session not active with a retained
\* configuration serialize on the reconnect, so at most one reconnect-on-demand
\* (one connectDatabase invocation made by reconnectIfNeeded) is in flight at
\* any time and the connection counter grows by 1, not by the number of queries.
NoDoubleOpen == InFlight({"execute", "item", "batch"}, {"close", "open"}) <= 1

\* C2 (as claimed): once the idle watchdog has closed the session, and no
\* caller has connected or disconnected since, an execute call is not turned
\* away as not connected without a connection attempt.
ReconnectTransparency ==
  ~(idleDisconnected /\ last.op = "execute" /\ last.val = "notConnected")

\* C3 (as claimed): whenever more than the idle threshold has passed since
\* the last call or return of a caller's connect or query, the session is no
\* longer connected, heartbeat probes notwithstanding.
IdleAutoDisconnect == now - lastCallerTime > IdleThreshold => ~isConnectionActive(Sess)

StatConsistency ==
  /\ connectionStats.successfulQueries + connectionStats.failedQueries
       = connectionStats.totalQueries
  /\ connectionStats.successfulConnections + connectionStats.failedConnections
       = connectionStats.totalConnections

\* C5 witness: connects and queries have both succeeded and failed, and a
\* batch has run.
StatsOfEveryKind ==
  /\ connectionStats.successfulQueries >= 1 /\ connectionStats.failedQueries >= 1
  /\ connectionStats.successfulConnections >= 1 /\ connectionStats.failedConnections >= 1
  /\ batch.ran # <<>>

\* C6: a statement rejected by the driver leaves lastActivityTime and the
\* pending idle check as they were.
ActivityNotExtended ==
  [][(QueryFail \/ ItemQueryFail)
       => (lastActivityTime' = lastActivityTime /\ autoDisconnectTimer' = autoDisconnectTimer)]_vars

\* C6 witness: a query has just failed on a connected session whose last
\* activity is older than the failure.
FailedQueryOldActivity ==
  /\ last.op = "execute" /\ last.val = "queryError"
  /\ isConnectionActive(Sess)
  /\ lastActivityTime # 0 /\ lastActivityTime < now

\* C7: the results of a finished batch are in input order: the k-th result
\* carries index k and the outcome of item k's statement, and a parallel batch
\* has one result per item.
BatchOrderPreserved ==
  batch.phase = "done" =>
    /\ \A k \in 1..Len(batch.results) :
         /\ batch.results[k].index = k
         /\ \E j \in 1..Len(batch.ran) :
              batch.ran[j] = [index |-> k, success |-> batch.results[k].success]
    /\ batch.parallel => Len(batch.results) = Len(batch.ids)

\* C7 witness: a parallel batch of three items finished whose third item
\* completed first and whose first two items ended differently.
ParallelOutOfOrder ==
  /\ batch.phase = "done" /\ batch.parallel /\ Len(batch.ran) = 3
  /\ batch.ran[1].index = 3 /\ batch.ran[2].index = 1
  /\ batch.ran[2].success # batch.ran[3].success

\* C8 (as claimed): a serial batch with stopOnError whose first failing item
\* is item k returns normally with exactly the results of items 1..k, item k
\* failed, and nothing after item k was run.
StopOnErrorSerial ==
  (/\ Over(batch) /\ ~batch.parallel /\ batch.stopOnError
   /\ \E j \in 1..Len(batch.ran) : ~batch.ran[j].success)
  => LET k == CHOOSE j \in 1..Len(batch.ran) :
                ~batch.ran[j].success /\ \A h \in 1..(j - 1) : batch.ran[h].success
     IN /\ batch.phase = "done"
        /\ Len(batch.ran) = k /\ Len(batch.results) = k
        /\ \A j \in 1..k : /\ batch.results[j].index = j
                           /\ batch.results[j].success = (j < k)

\* C9 (as claimed): whatever the mode, a batch that ran items returns normally
\* with one result per item run, and an item without id is reported as
\* SQL_<position>.
DefaultItemId ==
  (Over(batch) /\ batch.ran # <<>>)
  => /\ batch.phase = "done"
     /\ Len(batch.results) = Len(batch.ran)
     /\ \A k \in 1..Len(batch.results) :
          batch.ids[batch.results[k].index] = ""
            => batch.results[k].id = Label(batch.results[k].index)

\* C10 (as claimed): averageQueryTime is totalQueryTime divided by the number
\* of queries whose duration was added to it.
AverageIsMean ==
  connectionStats.successfulQueries > 0 =>
    connectionStats.averageQueryTime[1] * connectionStats.successfulQueries
      = connectionStats.totalQueryTime * connectionStats.averageQueryTime[2]

\* A pool the driver holds resources for: created, not closed, and connecting
\* or connected.
PoolOpen(p) == ~pools[p].closed /\ (pools[p].connecting \/ pools[p].connected)

\* C11 (as claimed): every open pool is the one the session references, so at
\* most one pool is open and no pool is left open once the session has moved
\* to another pool or to none.
NoPoolLeak == \A p \in 1..Len(pools) : PoolOpen(p) => p = connectionPool

\* C12 (as claimed): when a connect_database call has just returned the error
\* of a pool that failed to open, and nothing else is pending, the session
\* holds no pool handle and neither timer is pending (so that a following
\* disconnect finds no session).
ConnectFailureDisconnected ==
  (last.op = "connect" /\ last.val = "connectFailed" /\ tasks = EmptyBag)
  => (connectionPool = 0 /\ autoDisconnectTimer <= 0 /\ heartbeatTimer = 0)

\* C13: an execute_sql or batch_execute_sql call made while the session is not
\* active and no configuration is retained returns the not-connected error
\* at once: no connection is attempted, no statement runs, no counter and no
\* other session state changes.
NotConnectedRejected ==
  [][((ExecuteTool \/ BatchTool(ItemIds))
        /\ ~isConnectionActive(Sess) /\ connectionConfig = NoConfig)
       => (/\ \/ (last'.op = "execute" /\ last'.val = "notConnected")
              \/ (last'.op = "batch" /\ last'.val = "failed" /\ batch'.ran = <<>>)
           /\ UNCHANGED SessionVars)]_vars

\* C13 witness: after a connect and an explicit disconnect, a batch and then
\* an execute call were turned away as not connected.
RejectedAfterDisconnect ==
  /\ last.op = "execute" /\ last.val = "notConnected"
  /\ batch.phase = "failed" /\ batch.ran = <<>>
  /\ connectionStats.successfulConnections = 1 /\ connectionStats.totalConnections = 1
  /\ connectionPool = 0 /\ ~idleDisconnected

\* C14 (as claimed): the step in which the idle watchdog's disconnect
\* completes leaves the retained configuration as it was.
ConfigRetainedOnIdle ==
  [][(/\ CloseDone
      /\ \E t \in BagToSet(tasks) :
           t.kind = "watchdog" /\ tasks' = tasks (-) SetToBag({t}))
       => connectionConfig' = connectionConfig]_vars

\* C15 (as claimed): however connects and disconnects interleave at their
\* awaits, no open pool is unreferenced by the session, no two pools are open,
\* and a connect that has just reported success left the session with a pool.
RaceSafety ==
  /\ \A p \in 1..Len(pools) : PoolOpen(p) => p = connectionPool
  /\ \A p, q \in 1..Len(pools) : (PoolOpen(p) /\ PoolOpen(q)) => p = q
  /\ (last.op = "connect" /\ last.val = "ok") => connectionPool # 0

\* C16: a statement of execute_sql, or of an item of a parallel batch, that the
\* driver rejects adds 1 to totalQueries and to failedQueries and nothing to
\* successfulQueries, is reported as failed, and leaves the pool handle, the
\* pools, the retained configuration and both timers as they were.
QueryFailureKeepsSession ==
  [][(QueryFail \/ (ItemQueryFail /\ batch.parallel))
       => (/\ connectionStats'.totalQueries = connectionStats.totalQueries + 1
           /\ connectionStats'.failedQueries = connectionStats.failedQueries + 1
           /\ connectionStats'.successfulQueries = connectionStats.successfulQueries
           /\ UNCHANGED <<connectionPool, pools, connectionConfig,
                          autoDisconnectTimer, heartbeatTimer>>
           /\ \/ (last'.op = "execute" /\ last'.val = "queryError")
              \/ (batch'.ran # <<>> /\ ~batch'.ran[Len(batch'.ran)].success))]_vars

\* C16 witness: an execute_sql call has just failed at the driver and the
\* session is connected, with its configuration and both timers pending.
FailedQueryStillConnected ==
  /\ last.op = "execute" /\ last.val = "queryError"
  /\ connectionStats.failedQueries >= 1
  /\ isConnectionActive(Sess) /\ connectionConfig # NoConfig
  /\ autoDisconnectTimer > 0 /\ heartbeatTimer > 0

Counters == {"totalConnections", "successfulConnections", "failedConnections",
             "totalQueries", "successfulQueries", "failedQueries", "totalQueryTime"}

\* C17: no step lowers a counter: the connection and query counters and the
\* cumulative query time only grow, across disconnects, idle disconnects and
\* reconnects included.
StatsNeverReset ==
  [][\A c \in Counters : connectionStats'[c] >= connectionStats[c]]_vars

\* C17 witness: an explicit disconnect has just completed and the counters of
\* the connection and of the query made before it are still there.
StatsSurviveDisconnect ==
  /\ last.op = "disconnect" /\ last.val = "true" /\ connectionPool = 0
  /\ connectionStats.successfulConnections >= 1
  /\ connectionStats.successfulQueries >= 1 /\ connectionStats.totalQueryTime > 0

\* Whole seconds between the last activity and the latest status call.
SecondsElapsed == Floor(last.nowMs - lastActivityTime * TickMs, 1000)
SecondsRemaining ==
  60 * last.out.countdown.remainingMinutes + last.out.countdown.remainingSeconds

\* C18: the countdown that status reports is max(0, 300 - whole seconds since
\* the last activity): never negative, never above 300, and shown with a
\* seconds part between 0 and 59.
CountdownClamped ==
  (last.op = "status" /\ last.val = "countdown")
  => /\ SecondsElapsed >= 0
     /\ SecondsRemaining = Max(0, CountdownSeconds - SecondsElapsed)
     /\ SecondsRemaining >= 0 /\ SecondsRemaining <= CountdownSeconds
     /\ last.out.countdown.remainingSeconds \in 0..59
     /\ last.out.countdown.remainingMinutes \in 0..5

\* C18 witness: status was called more than 300 seconds after the last
\* activity, on a session still connected, and reported a countdown of zero.
CountdownAtZero ==
  /\ last.op = "status" /\ last.val = "countdown"
  /\ SecondsElapsed > CountdownSeconds
  /\ SecondsRemaining = 0

\* The configuration that differs from cfg in the password only.
OtherPassword(cfg) ==
  IF cfg = "cfgA" THEN "cfgB" ELSE IF cfg = "cfgB" THEN "cfgA" ELSE cfg

\* C19: what status returned is what it returns, at the same instant, for the
\* session that differs only in the password of its configuration, and the
\* connection information it shows has no password field.
PasswordNotRevealed ==
  last.op = "status"
  => /\ last.out = statusOutput([Sess EXCEPT !.connectionConfig = OtherPassword(@)],
                                last.nowMs)
     /\ last.val \in {"connected", "countdown"}
          => DOMAIN last.out.info = {"server", "port", "database", "user"}

\* C19 witness: status has shown the connection information of a connected
\* session whose configuration is the second of the two that differ in the
\* password.
StatusOfSecondPassword ==
  /\ last.op = "status" /\ last.val = "countdown"
  /\ connectionConfig = "cfgB"
  /\ ConfigFields(connectionConfig).password # ConfigFields("cfgA").password
  /\ last.out.info.user = ConfigFields("cfgA").user

\* C20 (as claimed): whenever the session holds no pool, neither the idle
\* check nor the heartbeat interval is pending.
TimersFollowSession ==
  connectionPool = 0 => (autoDisconnectTimer <= 0 /\ heartbeatTimer = 0)

\* C21 (as claimed): the step in which a connect_database call's pool open
\* succeeds leaves the session holding that pool, with the configuration
\* passed in retained, successfulConnections and totalConnections each one
\* higher, lastActivityTime set to the present and both timers pending.
ConnectSuccessEffects ==
  [][\A t \in BagToSet(tasks) :
       (OpenOk /\ t.kind = "connect" /\ t.pc = "open" /\ tasks' = tasks (-) SetToBag({t}))
       => (/\ connectionPool' = t.pool
           /\ connectionConfig' = t.cfg
           /\ connectionStats'.totalConnections = connectionStats.totalConnections + 1
           /\ connectionStats'.successfulConnections
                = connectionStats.successfulConnections + 1
           /\ connectionStats'.failedConnections = connectionStats.failedConnections
           /\ lastActivityTime' = now
           /\ autoDisconnectTimer' = now + CheckPeriod
           /\ heartbeatTimer' = now + HeartbeatPeriod)]_vars

\* C22: every step in which a connect succeeds or a statement succeeds sets
\* lastActivityTime to the present and restarts the idle check, which is then
\* due one full check period later.
ActivityTracked ==
  [][(OpenOk \/ BatchOpenOk \/ ItemOpenOk \/ QueryOk(Durations) \/ ItemQueryOk(Durations))
       => (lastActivityTime' = now /\ autoDisconnectTimer' = now + CheckPeriod)]_vars

\* C22 witness: a statement has just succeeded later than the connect, and
\* the activity time and the idle check are those of the statement.
QueryMovedActivity ==
  /\ last.op = "execute" /\ last.val = "ok"
  /\ now > 1 /\ connectionStats.totalConnections = 1
  /\ lastActivityTime = now /\ autoDisconnectTimer = now + CheckPeriod

\* C23: when the idle check runs on a session that holds a pool and whose
\* last activity is less than the threshold ago, it closes nothing, leaves
\* the session as it is and arms the next check one period later; an idle
\* check closes a pool only when the threshold has elapsed.
WatchdogNotEarly ==
  [][WatchdogFire =>
       /\ (connectionPool # 0 /\ lastActivityTime # 0
             /\ now - lastActivityTime < IdleThreshold)
            => (/\ UNCHANGED <<connectionPool, lastActivityTime, connectionConfig,
                               heartbeatTimer, connectionStats, pools, tasks>>
                /\ autoDisconnectTimer' = now + CheckPeriod)
       /\ (pools' # pools \/ tasks' # tasks)
            => (lastActivityTime # 0 /\ now - lastActivityTime >= IdleThreshold)]_vars

\* C23 witness: the idle check has run after the last activity and armed
\* the next check, the session still holding its pool.
WatchdogRescheduled ==
  /\ connectionPool # 0 /\ PoolOpen(connectionPool)
  /\ 0 < lastActivityTime /\ lastActivityTime < now
  /\ autoDisconnectTimer = now + CheckPeriod

\* C24: when the idle check runs on a session that holds no pool, it closes
\* nothing, starts nothing, reports nothing, leaves the session as it is and
\* arms no further check.
LateWatchdogNoOp ==
  [][(WatchdogFire /\ connectionPool = 0)
       => (/\ UNCHANGED <<connectionPool, lastActivityTime, connectionConfig,
                          heartbeatTimer, connectionStats, pools, tasks>>
           /\ last' = NoRet
           /\ autoDisconnectTimer' = -1)]_vars

\* C24 witness: the idle check has run on a session without a pool.
WatchdogRanWithoutPool ==
  /\ connectionPool = 0 /\ autoDisconnectTimer = -1
  /\ tasks = EmptyBag

\* C25: when the heartbeat runs on a session whose pool is connected it
\* issues one probe on that pool and changes nothing else; when the probe
\* succeeds lastActivityTime becomes the present; when the heartbeat runs on
\* a session that is not connected it issues no probe and changes nothing.
HeartbeatExtendsIdleWindow ==
  [][/\ HeartbeatFire =>
          /\ UNCHANGED <<connectionPool, lastActivityTime, connectionConfig,
                         autoDisconnectTimer, connectionStats, pools>>
          /\ heartbeatTimer' > now
          /\ IF isConnectionActive(Sess)
             THEN \E t \in BagToSet(tasks') :
                    /\ t.kind = "heartbeat" /\ t.pc = "query" /\ t.pool = connectionPool
                    /\ tasks' = tasks (+) SetToBag({t})
             ELSE tasks' = tasks
     /\ HeartbeatOk => lastActivityTime' = now]_vars

\* C25 witness: a probe has succeeded after the caller's last call, and the
\* activity time is the time of the probe.
HeartbeatMovedActivity ==
  /\ isConnectionActive(Sess)
  /\ lastActivityTime = now /\ lastCallerTime < now
  /\ last = NoRet /\ tasks = EmptyBag

\* C26: a failed heartbeat probe reports nothing to the caller and leaves
\* the pool handle, the retained configuration, lastActivityTime, both
\* timers, the counters and every pool as they were: only the probe is gone.
HeartbeatFailureSwallowed ==
  [][HeartbeatFail =>
       /\ UNCHANGED <<connectionPool, lastActivityTime, connectionConfig,
                      autoDisconnectTimer, heartbeatTimer, connectionStats, pools>>
       /\ last' = NoRet
       /\ BagCardinality(tasks') = BagCardinality(tasks) - 1]_vars

\* C26 witness: on the session's only connection a heartbeat ran a full
\* period after the last activity, its probe is over and did not count as
\* activity, and the session is still connected.
HeartbeatFailedQuietly ==
  /\ isConnectionActive(Sess)
  /\ connectionStats.totalConnections = 1
  /\ tasks = EmptyBag
  /\ lastActivityTime > 0
  /\ heartbeatTimer >= lastActivityTime + 2 * HeartbeatPeriod

\* C27 (as claimed): the reconnect check of a batch is made once, before the
\* first item, so no item of a batch ever waits for a pool to close or to
\* open: every item in flight is at its statement.
BatchConnectsOnce ==
  \A t \in BagToSet(tasks) : t.kind = "item" => t.pc = "query"

\* C28: a parallel batch that has started its items has one promise per item
\* and ends only when every item's executeQuery has returned or thrown, each
\* once; it then holds exactly one result per item, whatever stopOnError is
\* and however many items failed.
ParallelIgnoresStopOnError ==
  batch.parallel =>
    /\ batch.phase \in {"run", "done"} => Len(batch.promises) = Len(batch.ids)
    /\ batch.phase = "failed" => batch.ran = <<>>
    /\ batch.phase = "done" =>
         /\ Len(batch.results) = Len(batch.ids)
         /\ \A i \in 1..Len(batch.ids) :
              /\ batch.results[i].index = i
              /\ Cardinality({k \in 1..Len(batch.ran) : batch.ran[k].index = i}) = 1

\* C28 witness: a parallel batch with stopOnError has ended with a failed
\* item followed by a successful one.
ParallelWentOnAfterFailure ==
  /\ batch.parallel /\ batch.stopOnError /\ batch.phase = "done"
  /\ Len(batch.results) >= 2
  /\ ~batch.results[1].success
  /\ batch.results[Len(batch.results)].success

\* C29 (as claimed): in a serial batch at most one item is in flight, and it
\* is the item after those whose executeQuery has returned or thrown; a
\* serial batch without stopOnError that has run an item ends with one
\* result per item, every item having been executed.
SerialIsSequential ==
  ~batch.parallel =>
    /\ InFlight({"item"}, Pending) <= 1
    /\ \A t \in BagToSet(tasks) : t.kind = "item" => t.idx = Len(batch.ran) + 1
    /\ (~batch.stopOnError /\ Over(batch) /\ batch.ran # <<>>)
         => /\ Len(batch.results) = Len(batch.ids)
            /\ Len(batch.ran) = Len(batch.ids)

\* The execute_sql calls in flight whose executeQuery is at one of pcs.
Exec(pcs) == InFlight({"execute"}, pcs)

\* C30: an execute_sql call only moves forward, from waiting for close() to
\* waiting for connect() to waiting for its statement, so it calls connect()
\* at most once and query() at most once; a rejected connect() or statement
\* ends the call with its error reported, creates no pool and starts nothing.
SingleReconnectAttempt ==
  [][/\ Exec(Pending)' <= Exec(Pending) + 1
     /\ ~ExecuteTool =>
          /\ Exec({"close"})' <= Exec({"close"})
          /\ Exec({"close", "open"})' <= Exec({"close", "open"})
          /\ Exec(Pending)' <= Exec(Pending)
     /\ OpenFail =>
          /\ Len(pools') = Len(pools)
          /\ BagCardinality(tasks') = BagCardinality(tasks) - 1
          /\ last'.val = "connectFailed"
          /\ Exec({"open"})' < Exec({"open"}) => last'.op = "execute"
          /\ connectionStats'.totalConnections = connectionStats.totalConnections + 1
          /\ connectionStats'.totalQueries = connectionStats.totalQueries
     /\ (OpenOk /\ Exec({"open"})' < Exec({"open"})) =>
          /\ Len(pools') = Len(pools)
          /\ connectionStats'.totalConnections = connectionStats.totalConnections + 1
     /\ (QueryOk(Durations) \/ QueryFail) =>
          /\ pools' = pools
          /\ BagCardinality(tasks') = BagCardinality(tasks) - 1
          /\ Exec({"query"})' = Exec({"query"}) - 1
          /\ last'.op = "execute"
          /\ QueryFail => last'.val = "queryError"
          /\ connectionStats'.totalQueries = connectionStats.totalQueries + 1
          /\ connectionStats'.totalConnections = connectionStats.totalConnections]_vars

\* C30 witness: an execute_sql call's own reconnect has failed and the call
\* has ended with that error, nothing being left in flight.
ReconnectFailureReported ==
  /\ last.op = "execute" /\ last.val = "connectFailed"
  /\ connectionStats.failedConnections >= 1
  /\ tasks = EmptyBag

\* An execute_sql call whose statement was issued on a connected pool, and
\* whose pool has been closed since, ends in this step.
ClosedQueryEnds(t) ==
  /\ t.kind = "execute" /\ t.pc = "query" /\ t.live
  /\ pools[t.pool].closed /\ ~pools[t.pool].connected
  /\ (QueryOk(Durations) \/ QueryFail)
  /\ tasks' = tasks (-) SetToBag({t})

\* C31 (as claimed): a statement that was in flight when a disconnect closed
\* its pool ends as a failed query: failedQueries and totalQueries are each
\* one higher, the error is returned to the caller, and the session stays
\* as the disconnect left it.
DisconnectFailsInFlightQuery ==
  [][\A t \in BagToSet(tasks) :
       ClosedQueryEnds(t)
       => (/\ connectionStats'.totalQueries = connectionStats.totalQueries + 1
           /\ connectionStats'.failedQueries = connectionStats.failedQueries + 1
           /\ last'.op = "execute" /\ last'.val = "queryError"
           /\ UNCHANGED <<connectionPool, connectionConfig, lastActivityTime,
                          autoDisconnectTimer, heartbeatTimer, pools>>)]_vars

\* C31 (amended): a statement that was in flight when a disconnect closed its
\* pool ends once, as the driver settles it. If it is rejected, failedQueries
\* and totalQueries are each one higher, the error is returned to the caller
\* and the session stays as the disconnect left it; if the driver still
\* completes it, it is counted and returned as a success. In both cases the
\* pool handle and the retained configuration are left as they were and no
\* pool is opened.
InFlightQueryEndsOrdinarily ==
  [][\A t \in BagToSet(tasks) :
       ClosedQueryEnds(t)
       => (/\ connectionStats'.totalQueries = connectionStats.totalQueries + 1
           /\ last'.op = "execute"
           /\ UNCHANGED <<connectionPool, connectionConfig, heartbeatTimer, pools>>
           /\ \/ /\ last'.val = "queryError"
                 /\ connectionStats'.failedQueries = connectionStats.failedQueries + 1
                 /\ connectionStats'.successfulQueries = connectionStats.successfulQueries
                 /\ UNCHANGED <<lastActivityTime, autoDisconnectTimer>>
              \/ /\ last'.val = "ok"
                 /\ connectionStats'.successfulQueries = connectionStats.successfulQueries + 1
                 /\ connectionStats'.failedQueries = connectionStats.failedQueries)]_vars

\* C31 witness: on the session's only connection a statement was issued, a
\* disconnect has completed, and the statement has then ended as a failed
\* query reported to its caller.
QueryFailedAfterDisconnect ==
  /\ last.op = "execute" /\ last.val = "queryError"
  /\ connectionStats.totalConnections = 1 /\ connectionStats.successfulConnections = 1
  /\ connectionStats.failedQueries = 1 /\ connectionStats.totalQueries = 1
  /\ connectionPool = 0 /\ connectionConfig = NoConfig /\ lastActivityTime = 0
  /\ autoDisconnectTimer = 0 /\ heartbeatTimer = 0

\* C32 (as claimed): the step in which disconnect_database, called on an
\* active session, reports true leaves the session without pool handle,
\* retained configuration and lastActivityTime, the pool being closed; and
\* from then on, as long as connect_database is not called, the configuration
\* stays cleared and execute_sql is rejected as not connected, opening no pool.
ExplicitDisconnectFinal ==
  [][/\ (CloseDone /\ last'.op = "disconnect" /\ last'.val = "true" /\ last'.active)
          => (/\ connectionPool' = 0 /\ connectionConfig' = NoConfig
              /\ lastActivityTime' = 0
              /\ \E t \in BagToSet(tasks) :
                   /\ t.kind = "disconnect" /\ t.pc = "close" /\ t.live
                   /\ tasks' = tasks (-) SetToBag({t})
                   /\ pools'[t.pool].closed /\ ~pools'[t.pool].connected)
     /\ (last.op = "disconnect" /\ last.val = "true" /\ last.active
           /\ ~ConnectTool(Configs))
          => (/\ connectionConfig' = NoConfig
              /\ ExecuteTool => (/\ last'.op = "execute" /\ last'.val = "notConnected"
                                 /\ pools' = pools
                                 /\ connectionStats' = connectionStats))]_vars

\* C33 (as claimed): the signal handler stops the heartbeat, and the step in
\* which the process exits leaves no pool open: a pool held when the step
\* begins is closed.
ShutdownReleasesSession ==
  [][/\ Signal => heartbeatTimer' = 0
     /\ (~Exited /\ Exited')
          => /\ connectionPool # 0 => pools'[connectionPool].closed
             /\ \A p \in 1..Len(pools') : ~pools'[p].closed => ~pools'[p].connecting
                                                             /\ ~pools'[p].connected]_vars

\* C34 (as claimed): the step in which the reconnect of an execute_sql call,
\* of a batch or of a batch item fails leaves no retained configuration; and
\* an execute_sql or batch call made right after a failed reconnect is
\* rejected, opening and closing no pool and leaving totalConnections as it is.
ReconnectFailureClearsConfig ==
  [][/\ ((OpenFail /\ last'.op = "execute") \/ BatchOpenFail \/ ItemOpenFail)
          => connectionConfig' = NoConfig
     /\ (last.op = "execute" /\ last.val = "connectFailed"
           /\ (ExecuteTool \/ BatchTool(ItemIds)))
          => (/\ pools' = pools /\ tasks' = tasks
              /\ connectionStats'.totalConnections = connectionStats.totalConnections
              /\ last'.val \in {"notConnected", "failed"})]_vars

IdentityMatchesPool ==
  isConnectionActive(Sess)
    => (connectionConfig # NoConfig /\ connectionConfig = pools[connectionPool].cfg)

\* The counters of statements.
QueryCounters ==
  <<connectionStats.totalQueries, connectionStats.successfulQueries,
    connectionStats.failedQueries, connectionStats.totalQueryTime>>

OneTimerOfEachKind ==
  /\ pending.timeouts = IF autoDisconnectTimer > 0 THEN 1 ELSE 0
  /\ pending.intervals = IF heartbeatTimer > 0 THEN 1 ELSE 0

\* C38 witness: the idle check was armed again by a statement while the
\* heartbeat of the connection was running, and one of each is armed.
TimersRestartedOnce ==
  /\ connectionStats.successfulQueries >= 1 /\ now > 1
  /\ lastActivityTime = now /\ autoDisconnectTimer = now + CheckPeriod
  /\ heartbeatTimer > 0
  /\ pending = [timeouts |-> 1, intervals |-> 1]

====
